---- MODULE Spec2Model ----
(***************************************************************************)
(* Model of the FTP storage back end of s-fabian/ftp-server:               *)
(*   src/src/handler.rs  path normalisation (clean), namespace resolution  *)
(*                       and confinement (Filesystem::full_path), and the  *)
(*                       StorageBackend operations built on them;          *)
(*   src/src/user.rs     the user record and its mount table;              *)
(*   src/src/auth.rs     the authenticator.                                *)
(*                                                                         *)
(* A path (Rust PathBuf) is the sequence of its components as              *)
(* Path::components() yields them: the string "/" stands for               *)
(* Component::RootDir, "." for CurDir, ".." for ParentDir and any other    *)
(* string for Normal.                                                      *)
(***************************************************************************)
EXTENDS Integers, Sequences, FiniteSets, TLC

VARIABLES fs, call, pending, auth, clock

vars == <<fs, call, pending, auth, clock>>

\* Longest client path, in segments, handed to full_path.
MaxLen == 3

\* Longest client path, in segments, handed to a mutating operation.
MaxOpLen == 2

\* Largest restart offset of an upload.
MaxPos == 1

\* Longest password, in characters.
MaxPwLen == 2

None == [tag |-> "None"]

Some(v) == [tag |-> "Some", val |-> v]

(***************************************************************************)
(* user.rs: the identity store.  Mount names and real paths follow         *)
(* default_config.rs (two mounts of one directory, one of them read-only,  *)
(* neither named after the directory) and add a user whose mounts are      *)
(* named after the last component of their real path.                      *)
(***************************************************************************)
VirtualDir(name, path, read_only) ==
    [name |-> name, path |-> path, read_only |-> read_only]

Pictures == <<"/", "Users", "fabian", "Pictures">>

UserBuild(name, password, access) ==
    [name |-> name, password |-> password,
     access |-> [n \in {a.name : a \in access} |->
                    CHOOSE a \in access : a.name = n]]

default_config ==
    UserBuild("fabian", <<"p", "w">>,
        {VirtualDir("easy-snacks-read", Pictures, TRUE),
         VirtualDir("easy-snacks-write", Pictures, FALSE)})

alice ==
    UserBuild("alice", <<"w", " ">>,
        {VirtualDir("photos", <<"/", "srv", "photos">>, FALSE),
         VirtualDir("docs", <<"/", "srv", "docs">>, TRUE)})

UsersBuild(users) ==
    [n \in {u.name : u \in users} |-> CHOOSE u \in users : u.name = n]

UserMap == UsersBuild({default_config, alice})

Users == {UserMap[n] : n \in DOMAIN UserMap}

get_access(user, name) ==
    IF name \in DOMAIN user.access THEN Some(user.access[name]) ELSE None

\* The (name, real path) pairs of a user's mounts; a HashMap yields each key
\* once, in an order of its own, so the list is modelled by its set of pairs.
accesses(user) ==
    {<<n, user.access[n].path>> : n \in DOMAIN user.access}

(***************************************************************************)
(* Client paths.  A client path is a string; Path::components() reads it   *)
(* as an optional root marker followed by segments, and drops every "."    *)
(* segment except one that starts a relative path.                         *)
(***************************************************************************)
Segments ==
    {".", "..", "f", "ln"} \cup UNION {DOMAIN u.access : u \in Users}

SeqsUpTo(S, n) == UNION {[1..k -> S] : k \in 0..n}

RawPath(abs, segs) == [abs |-> abs, segs |-> segs]

PathsOver(S, n) == {RawPath(abs, segs) : abs \in BOOLEAN, segs \in SeqsUpTo(S, n)}

RawPaths(n) == PathsOver(Segments, n)

RECURSIVE DropCurDir(_)
DropCurDir(s) ==
    IF s = <<>> THEN <<>>
    ELSE IF Head(s) = "." THEN DropCurDir(Tail(s))
    ELSE <<Head(s)>> \o DropCurDir(Tail(s))

Components(raw) ==
    IF raw.abs THEN <<"/">> \o DropCurDir(raw.segs)
    ELSE IF raw.segs # <<>> /\ Head(raw.segs) = "."
         THEN <<".">> \o DropCurDir(Tail(raw.segs))
         ELSE DropCurDir(raw.segs)

IsNormal(c) == c \notin {"/", ".", ".."}

\* A pop that only refuses the empty path, and so pops the root marker.
CanPopAtRoot(path) == path # <<>>

\* PathBuf::pop: fails when the path has no parent (empty, or the root alone).
CanPop(path) == path # <<>> /\ path # <<"/">>

Pop(path) == SubSeq(path, 1, Len(path) - 1)

\* PathBuf::push: an absolute component replaces the path.
Push(path, c) == IF c = "/" THEN <<"/">> ELSE Append(path, c)

RECURSIVE CleanWalk(_, _)
CleanWalk(path, comps) ==
    IF comps = <<>> THEN Some(path)
    ELSE LET c == Head(comps) IN
         IF c = "/" THEN CleanWalk(Push(path, "/"), Tail(comps))
         ELSE IF c = "." THEN CleanWalk(path, Tail(comps))
         ELSE IF c = ".."
              THEN IF ~CanPop(path) THEN None
                   ELSE CleanWalk(Pop(path), Tail(comps))
         ELSE CleanWalk(Push(path, c), Tail(comps))

clean(raw) ==
    LET r == CleanWalk(<<>>, Components(raw)) IN
    IF r.tag = "None" THEN None
    ELSE IF r.val = <<>> THEN Some(Push(r.val, "."))
    ELSE r

(***************************************************************************)
(* Path helpers of std::path used by full_path.                            *)
(***************************************************************************)
StartsWith(path, base) ==
    Len(base) <= Len(path) /\ SubSeq(path, 1, Len(base)) = base

EndsWith(path, child) ==
    Len(child) <= Len(path)
    /\ SubSeq(path, Len(path) - Len(child) + 1, Len(path)) = child

\* Path::strip_prefix(..).unwrap_or(path)
StripPrefixOr(path, base) ==
    IF StartsWith(path, base) THEN SubSeq(path, Len(base) + 1, Len(path))
    ELSE path

\* Path::join: an absolute right-hand side replaces the left-hand side.
Join(base, rel) ==
    IF rel # <<>> /\ Head(rel) = "/" THEN rel ELSE base \o rel

(***************************************************************************)
(* handler.rs canonicalize: path_abs::PathAbs::new.  It makes the path     *)
(* absolute and folds "." and ".." component by component; it reads no     *)
(* directory entry and follows no symbolic link.                           *)
(***************************************************************************)
Cwd == <<"/">>

RECURSIVE AbsWalk(_, _)
AbsWalk(res, comps) ==
    IF comps = <<>> THEN Some(res)
    ELSE LET c == Head(comps)
             init == IF res = <<>> THEN Cwd ELSE res IN
         IF c = "/" THEN AbsWalk(<<"/">>, Tail(comps))
         ELSE IF c = "." THEN AbsWalk(res, Tail(comps))
         ELSE IF c = ".."
              THEN IF ~CanPop(init) THEN None
                   ELSE AbsWalk(Pop(init), Tail(comps))
         ELSE AbsWalk(Append(init, c), Tail(comps))

Err(kind, msg) == [tag |-> "Error", kind |-> kind, msg |-> msg]

Ok(v) == [tag |-> "Ok", val |-> v]

canonicalize(path) ==
    LET p == AbsWalk(<<>>, path) IN
    IF p.tag = "None" THEN Err("FileNameNotAllowedError", "")
    ELSE Ok(p.val)

(***************************************************************************)
(* handler.rs ResolveRes and Filesystem::full_path.                        *)
(***************************************************************************)
Read(real, root) == [tag |-> "Read", path |-> real, root |-> root]

Write(real, root) == [tag |-> "Write", path |-> real, root |-> root]

Root(list) == [tag |-> "Root", list |-> list]

\* The two fields of the outcome in the wrong order.
ClassifySwapped(full, dir) ==
    IF StartsWith(full, dir.path)
    THEN IF EndsWith(full, <<dir.name>>) \/ dir.read_only
         THEN Read(dir.path, full)
         ELSE Write(dir.path, full)
    ELSE Err("PermanentFileNotAvailable", "")

\* The mount's read_only flag left out of the classification.
ClassifyNoFlag(full, dir) ==
    IF StartsWith(full, dir.path)
    THEN IF EndsWith(full, <<dir.name>>)
         THEN Read(full, dir.path)
         ELSE Write(full, dir.path)
    ELSE Err("PermanentFileNotAvailable", "")

\* handler.rs 149-157: the confinement check and the Read/Write decision.
Classify(full, dir) ==
    IF StartsWith(full, dir.path)
    THEN IF EndsWith(full, <<dir.name>>) \/ dir.read_only
         THEN Read(full, dir.path)
         ELSE Write(full, dir.path)
    ELSE Err("PermanentFileNotAvailable", "")

full_path(user, raw) ==
    LET cleaned == clean(raw) IN
    IF cleaned.tag = "None"
    THEN Err("PermissionDenied", "Error: no parent parent parent")
    ELSE
    LET path == StripPrefixOr(cleaned.val, <<"/">>) IN
    IF path = <<>> THEN Root(accesses(user))
    ELSE IF ~IsNormal(Head(path))
    THEN Err("PermissionDenied", "Error: invalid path")
    ELSE
    LET first_dir == Head(path)
        target == get_access(user, first_dir) IN
    IF target.tag = "None"
    THEN IF first_dir = "" THEN Root(accesses(user))
         ELSE Err("PermissionDenied", "Error: invalid path")
    ELSE
    LET real_path == Join(target.val.path, StripPrefixOr(path, <<first_dir>>))
        full == canonicalize(real_path) IN
    IF full.tag = "Error" THEN full
    ELSE Classify(full.val, target.val)

(***************************************************************************)
(* The real file system the back end runs on: a map from absolute paths    *)
(* to nodes.  Both users' writable mounts hold a symbolic link "ln" that   *)
(* points out of the mount.                                                *)
(***************************************************************************)
Dir == [kind |-> "dir"]

File == [kind |-> "file", size |-> 1]

Symlink(target) == [kind |-> "symlink", target |-> target]

Photos == <<"/", "srv", "photos">>

Docs == <<"/", "srv", "docs">>

Etc == <<"/", "etc">>

InitDirs ==
    {<<"/">>, <<"/", "Users">>, <<"/", "Users", "fabian">>, Pictures,
     <<"/", "srv">>, Photos, Docs, Etc}

InitFs ==
    [p \in InitDirs \cup {Append(Etc, "f"), Append(Docs, "f"),
                          Append(Photos, "ln"), Append(Pictures, "ln")} |->
        IF p \in InitDirs THEN Dir
        ELSE IF p[Len(p)] = "ln" THEN Symlink(Etc)
        ELSE File]

Exists(fsys, p) == p \in DOMAIN fsys

\* What the operating system makes of a path: every symbolic link on the way
\* is followed (links hold absolute targets); None when a component is
\* missing or the links do not end.
RECURSIVE Follow(_, _, _, _)
Follow(fsys, cur, rest, fuel) ==
    IF rest = <<>> THEN Some(cur)
    ELSE LET next == Append(cur, Head(rest)) IN
         IF ~Exists(fsys, next) THEN None
         ELSE IF fsys[next].kind = "symlink"
              THEN IF fuel = 0 THEN None
                   ELSE Follow(fsys, <<"/">>,
                               Tail(fsys[next].target) \o Tail(rest), fuel - 1)
         ELSE Follow(fsys, next, Tail(rest), fuel)

RealPath(fsys, p) == Follow(fsys, <<"/">>, Tail(p), Cardinality(DOMAIN fsys))

(***************************************************************************)
(* State.  call is the last finished call and what it returned.            *)
(***************************************************************************)
NoCall == [op |-> "none"]

AuthIdle == [pc |-> "idle", res |-> None, out |-> None]

(***************************************************************************)
(* Resolution on its own: full_path is a function of the user and the      *)
(* client path, so the request is drawn in the initial state and the       *)
(* action applies full_path to it.                                         *)
(***************************************************************************)
Request(op, user, raw) == [tag |-> "Some", op |-> op, user |-> user, path |-> raw]

Resolve ==
    /\ pending.tag = "Some"
    /\ pending.op = "full_path"
    /\ call' = [op |-> "full_path", user |-> pending.user, path |-> pending.path,
                res |-> full_path(UserMap[pending.user], pending.path)]
    /\ pending' = None
    /\ UNCHANGED <<fs, auth, clock>>

InitResolve ==
    /\ fs = InitFs
    /\ call = NoCall
    /\ pending \in {Request("full_path", u, raw) :
                        u \in DOMAIN UserMap, raw \in RawPaths(MaxLen)}
    /\ auth = AuthIdle
    /\ clock = 0

NextResolve == Resolve

SpecResolve == InitResolve /\ [][NextResolve]_vars

(***************************************************************************)
(* The file-system primitives the operations call (tokio::fs), as the      *)
(* operating system carries them out: the parent directory is reached      *)
(* through symbolic links, the last component is taken as it is.           *)
(***************************************************************************)
IoError == Err("IoError", "")

Last(p) == p[Len(p)]

\* Where the entry a path names lives: None when the parent is missing or
\* is no directory.
Locate(fsys, p) ==
    IF Len(p) < 2 THEN None
    ELSE LET par == RealPath(fsys, Pop(p)) IN
         IF par.tag = "None" THEN None
         ELSE IF fsys[par.val].kind # "dir" THEN None
         ELSE Some(Append(par.val, Last(p)))

Children(fsys, d) == {q \in DOMAIN fsys : Len(q) > Len(d) /\ StartsWith(q, d)}

Without(fsys, gone) == [q \in DOMAIN fsys \ gone |-> fsys[q]]

With(fsys, p, node) ==
    [q \in DOMAIN fsys \cup {p} |-> IF q = p THEN node ELSE fsys[q]]

SizedFile(size) == [kind |-> "file", size |-> size]

\* OpenOptions::new().write(true).create(true).open, set_len(start_pos), seek
\* and copy of the uploaded bytes: [fs, out].
FsPut(fsys, p, start_pos, bytes) ==
    LET loc == Locate(fsys, p)
        real == IF loc.tag = "None" THEN None
                ELSE IF Exists(fsys, loc.val) THEN RealPath(fsys, loc.val)
                ELSE loc IN
    IF real.tag = "None" THEN [fs |-> fsys, out |-> IoError]
    ELSE IF Exists(fsys, real.val) /\ fsys[real.val].kind # "file"
    THEN [fs |-> fsys, out |-> IoError]
    ELSE [fs |-> With(fsys, real.val, SizedFile(start_pos + bytes)),
          out |-> Ok(bytes)]

\* remove_file
FsRemoveFile(fsys, p) ==
    LET loc == Locate(fsys, p) IN
    IF loc.tag = "None" \/ ~Exists(fsys, loc.val) THEN [fs |-> fsys, out |-> IoError]
    ELSE IF fsys[loc.val].kind = "dir" THEN [fs |-> fsys, out |-> IoError]
    ELSE [fs |-> Without(fsys, {loc.val}), out |-> Ok(<<>>)]

\* create_dir
FsCreateDir(fsys, p) ==
    LET loc == Locate(fsys, p) IN
    IF loc.tag = "None" \/ Exists(fsys, loc.val) THEN [fs |-> fsys, out |-> IoError]
    ELSE [fs |-> With(fsys, loc.val, Dir), out |-> Ok(<<>>)]

\* remove_dir
FsRemoveDir(fsys, p) ==
    LET loc == Locate(fsys, p) IN
    IF loc.tag = "None" \/ ~Exists(fsys, loc.val) THEN [fs |-> fsys, out |-> IoError]
    ELSE IF fsys[loc.val].kind # "dir" \/ Children(fsys, loc.val) # {}
    THEN [fs |-> fsys, out |-> IoError]
    ELSE [fs |-> Without(fsys, {loc.val}), out |-> Ok(<<>>)]

\* symlink_metadata: the kind of the entry itself, links not followed.
FsSymlinkMetadata(fsys, p) ==
    IF p = <<"/">> THEN Ok("dir")
    ELSE LET loc == Locate(fsys, p) IN
         IF loc.tag = "None" \/ ~Exists(fsys, loc.val) THEN IoError
         ELSE Ok(fsys[loc.val].kind)

\* rename(2): the entry and everything below it moves; an existing target
\* is replaced when it is a non-directory (for a non-directory source) or an
\* empty directory (for a directory source).
FsRename(fsys, from, to) ==
    LET a == Locate(fsys, from)
        b == Locate(fsys, to) IN
    IF a.tag = "None" \/ b.tag = "None" THEN [fs |-> fsys, out |-> IoError]
    ELSE IF ~Exists(fsys, a.val) THEN [fs |-> fsys, out |-> IoError]
    ELSE IF a.val = b.val THEN [fs |-> fsys, out |-> Ok(<<>>)]
    ELSE IF StartsWith(b.val, a.val) THEN [fs |-> fsys, out |-> IoError]
    ELSE IF /\ Exists(fsys, b.val)
            /\ \/ (fsys[a.val].kind = "dir") # (fsys[b.val].kind = "dir")
               \/ Children(fsys, b.val) # {}
    THEN [fs |-> fsys, out |-> IoError]
    ELSE LET moved == {a.val} \cup Children(fsys, a.val)
             rest == Without(fsys, moved \cup {b.val})
             New(q) == b.val \o SubSeq(q, Len(a.val) + 1, Len(q)) IN
         [fs |-> [q \in DOMAIN rest \cup {New(m) : m \in moved} |->
                     IF q \in DOMAIN rest THEN rest[q]
                     ELSE fsys[CHOOSE m \in moved : New(m) = q]],
          out |-> Ok(<<>>)]

(***************************************************************************)
(* handler.rs ResolveRes::write_ok and the write-class operations of the   *)
(* StorageBackend.  A finished call records the resolution(s) it made, the *)
(* file-system primitives it went on to call (io) and what it returned.    *)
(***************************************************************************)
\* read_ok in the place of write_ok: a Read resolution is let through.
write_ok_as_read_ok(res) ==
    IF res.tag \in {"Read", "Write"} THEN Ok(res.path)
    ELSE IF res.tag = "Error" THEN res
    ELSE Err("PermissionDenied", "Error: root not ok")

write_ok(res) ==
    IF res.tag = "Read" THEN Err("PermissionDenied", "Error: permission denied")
    ELSE IF res.tag = "Write" THEN Ok(res.path)
    ELSE IF res.tag = "Error" THEN res
    ELSE Err("PermissionDenied", "Error: root not ok")

\* The paths a session hands to a mutating operation: its user's mount
\* names, a file name, the name of the link, and "..".
OpPaths(user) == PathsOver({"..", "f", "ln"} \cup DOMAIN user.access, MaxOpLen)

\* A session that has no call behind it yet.
Idle == pending = None /\ call = NoCall

\* The primitive a write-class call goes on to, by name.
Primitive(prim, fsys, p, start_pos) ==
    CASE prim = "open" -> FsPut(fsys, p, start_pos, 1)
      [] prim = "remove_file" -> FsRemoveFile(fsys, p)
      [] prim = "create_dir" -> FsCreateDir(fsys, p)
      [] prim = "remove_dir" -> FsRemoveDir(fsys, p)

\* What a write-class call on one path does once the path is resolved:
\* write_ok, then the primitive.
Effect(fsys, w, prim, start_pos) ==
    IF w.tag = "Ok" THEN Primitive(prim, fsys, w.val, start_pos)
    ELSE [fs |-> fsys, out |-> w]

Finish(op, user, raw, prim, start_pos) ==
    \E res \in {full_path(user, raw)} :
    \E w \in {write_ok(res)} :
    \E r \in {Effect(fs, w, prim, start_pos)} :
        /\ fs' = r.fs
        /\ call' = [op |-> op, user |-> user.name, path |-> raw, res |-> res,
                    io |-> IF w.tag = "Ok" THEN <<prim>> ELSE <<>>,
                    out |-> r.out]
        /\ UNCHANGED <<pending, auth, clock>>

put ==
    /\ Idle
    /\ \E user \in Users : \E raw \in OpPaths(user), start_pos \in 0..MaxPos :
        Finish("put", user, raw, "open", start_pos)

del ==
    /\ Idle
    /\ \E user \in Users : \E raw \in OpPaths(user) :
        Finish("del", user, raw, "remove_file", 0)

mkd ==
    /\ Idle
    /\ \E user \in Users : \E raw \in OpPaths(user) :
        Finish("mkd", user, raw, "create_dir", 0)

rmd ==
    /\ Idle
    /\ \E user \in Users : \E raw \in OpPaths(user) :
        Finish("rmd", user, raw, "remove_dir", 0)

NotAvailable == Err("PermanentFileNotAvailable", "")

NotReached == [tag |-> "NotReached"]

RenameResult(fsys, r1, r2, io, out) ==
    [fs |-> fsys, from |-> r1, to |-> r2, io |-> io, out |-> out]

\* handler.rs 318-323: the rename itself.
RenameDo(r1, r2, r) ==
    RenameResult(r.fs, r1, r2, <<"symlink_metadata", "rename">>,
                 IF r.out.tag = "Ok" THEN Ok(<<>>) ELSE NotAvailable)

\* The rename attempted on whatever symlink_metadata found.
RenameStatAnyKind(fsys, r1, r2, metadata) ==
    IF metadata.tag = "Ok"
    THEN RenameDo(r1, r2, FsRename(fsys, r1.path, r2.path))
    ELSE RenameResult(fsys, r1, r2, <<"symlink_metadata">>, NotAvailable)

\* handler.rs 314-328: the source must be a plain file or a directory.
RenameStat(fsys, r1, r2, metadata) ==
    IF metadata.tag = "Ok" /\ metadata.val \in {"file", "dir"}
    THEN RenameDo(r1, r2, FsRename(fsys, r1.path, r2.path))
    ELSE RenameResult(fsys, r1, r2, <<"symlink_metadata">>, NotAvailable)

\* handler.rs 310: the destination must resolve to Write.
RenameTo(fsys, r1, r2, w2) ==
    IF w2.tag # "Ok" THEN RenameResult(fsys, r1, r2, <<>>, w2)
    ELSE RenameStat(fsys, r1, r2, FsSymlinkMetadata(fsys, r1.path))

\* handler.rs 309: the source must resolve to Write.
RenameFrom(fsys, user, to, r1, w1) ==
    IF w1.tag # "Ok" THEN RenameResult(fsys, r1, NotReached, <<>>, w1)
    ELSE RenameTo(fsys, r1, full_path(user, to), write_ok(full_path(user, to)))

\* handler.rs 303-329: [fs, from, to, io, out].
RenameOutcome(fsys, user, from, to) ==
    RenameFrom(fsys, user, to, full_path(user, from), write_ok(full_path(user, from)))

rename ==
    /\ Idle
    /\ \E user \in Users : \E from \in OpPaths(user), to \in OpPaths(user) :
       \E r \in {RenameOutcome(fs, user, from, to)} :
        /\ fs' = r.fs
        /\ call' = [op |-> "rename", user |-> user.name, path |-> from,
                    to_path |-> to, res |-> r.from, to |-> r.to,
                    io |-> r.io, out |-> r.out]
        /\ UNCHANGED <<pending, auth, clock>>

(***************************************************************************)
(* The file systems a call may find: the writable mounts hold, besides the *)
(* link "ln", nothing, a file "f", an empty directory "f", or a directory  *)
(* "f" with a file in it.                                                  *)
(***************************************************************************)
Layouts == {"empty", "file", "dir", "tree"}

Layout(k) ==
    LET roots == {Photos, Pictures}
        top == IF k = "empty" THEN {} ELSE {Append(r, "f") : r \in roots}
        deep == IF k = "tree" THEN {r \o <<"f", "f">> : r \in roots} ELSE {} IN
    [q \in DOMAIN InitFs \cup top \cup deep |->
        IF q \in DOMAIN InitFs THEN InitFs[q]
        ELSE IF q \in top /\ k # "file" THEN Dir
        ELSE File]

Init ==
    /\ fs \in {Layout(k) : k \in Layouts}
    /\ call = NoCall
    /\ pending = None
    /\ auth = AuthIdle
    /\ clock = 0

Next == put \/ del \/ mkd \/ rmd \/ rename

Spec == Init /\ [][Next]_vars

(***************************************************************************)
(* auth.rs Authenticator::authenticate and user.rs User::password_ok.  A   *)
(* password is the sequence of its characters; clock counts milliseconds.  *)
(***************************************************************************)
AuthDelayMs == 1500

PwChars == {"p", "w", " "}

IsSpace(c) == c = " "

RECURSIVE TrimStart(_)
TrimStart(s) ==
    IF s # <<>> /\ IsSpace(Head(s)) THEN TrimStart(Tail(s)) ELSE s

RECURSIVE TrimEnd(_)
TrimEnd(s) ==
    IF s # <<>> /\ IsSpace(s[Len(s)]) THEN TrimEnd(SubSeq(s, 1, Len(s) - 1)) ELSE s

\* str::trim
Trim(s) == TrimEnd(TrimStart(s))

password_ok(user, password) == Trim(user.password) = Trim(password)

AuthErr(e) == [tag |-> "Err", error |-> e]

\* auth.rs 28-40
Credentials(user, creds) ==
    IF creds.tag = "Some"
    THEN IF ~password_ok(user, creds.val) THEN AuthErr("BadPassword")
         ELSE Ok(user)
    ELSE AuthErr("BadPassword")

Lookup(username, creds) ==
    IF username \in DOMAIN UserMap THEN Credentials(UserMap[username], creds)
    ELSE AuthErr("BadUser")

\* A delay for a wrong password only.
NeedsDelayBadPassword(res) == res = AuthErr("BadPassword")

\* auth.rs 42: res.is_err()
NeedsDelay(res) == res.tag = "Err"

Usernames == DOMAIN UserMap \cup {"mallory"}

Passwords == {None} \cup {Some(pw) : pw \in SeqsUpTo(PwChars, MaxPwLen)}

\* auth.rs 28-42: the verdict is computed; a failure goes to sleep, a
\* success returns at once.
AuthCheck ==
    /\ auth.pc = "called"
    /\ \E res \in {Lookup(auth.username, auth.creds)} :
          auth' = IF NeedsDelay(res)
                  THEN [auth EXCEPT !.pc = "sleep", !.res = res]
                  ELSE [auth EXCEPT !.pc = "done", !.res = res, !.out = Some(res),
                                    !.finished = clock]
    /\ UNCHANGED <<fs, call, pending, clock>>

\* auth.rs 43-46: the sleep elapses and the failure is returned.
AuthSleep ==
    /\ auth.pc = "sleep"
    /\ clock' = clock + AuthDelayMs
    /\ auth' = [auth EXCEPT !.pc = "done", !.out = Some(auth.res),
                            !.finished = clock + AuthDelayMs]
    /\ UNCHANGED <<fs, call, pending>>

InitAuth ==
    /\ fs = InitFs
    /\ call = NoCall
    /\ pending = None
    /\ clock = 0
    /\ auth \in {[pc |-> "called", username |-> n, creds |-> c, started |-> 0,
                  res |-> None, out |-> None, finished |-> 0] :
                    n \in Usernames, c \in Passwords}

NextAuth == AuthCheck \/ AuthSleep

SpecAuth == InitAuth /\ [][NextAuth]_vars

(***************************************************************************)
(* Properties of resolution, stated on the last finished full_path call.   *)
(***************************************************************************)
Resolved == call.op = "full_path"

CallUser == UserMap[call.user]

Range(s) == {s[i] : i \in DOMAIN s}

AllNormal(s) == \A i \in DOMAIN s : IsNormal(s[i])

\* The client path names mount m and then only ordinary segments.
InsideMount(m) ==
    /\ m \in DOMAIN CallUser.access
    /\ call.path.segs # <<>>
    /\ Head(call.path.segs) = m
    /\ AllNormal(call.path.segs)

\* C1: a client path <mount>/<segments> whose form after following symbolic
\* links lies outside the mount's real path is rejected, never Read or Write.
C1_SymlinkEscapeRejected ==
    Resolved =>
        \A m \in DOMAIN UserMap[call.user].access :
            InsideMount(m) =>
                LET dir == CallUser.access[m]
                    real == RealPath(fs, dir.path \o Tail(call.path.segs)) IN
                (real.tag = "Some" /\ ~StartsWith(real.val, dir.path))
                    => call.res.tag = "Error"

\* C2: the mount name alone resolves to Read with the mount's real path, for
\* every mount, writable or not, whatever its real path is called.
C2_MountRootReadOnly ==
    Resolved =>
        \A m \in DOMAIN UserMap[call.user].access :
            call.path.segs = <<m>> =>
                call.res = Read(CallUser.access[m].path, CallUser.access[m].path)

\* The first segment of the client path after normalisation.
FirstSegment ==
    LET c == clean(call.path) IN
    IF c.tag = "None" THEN None
    ELSE LET p == StripPrefixOr(c.val, <<"/">>) IN
         IF p = <<>> THEN None ELSE Some(Head(p))

\* C3: a Read or Write outcome carries the real path of the mount the client
\* path names as its mount root, and a real path inside that mount root.
C3_OutcomeConfined ==
    (Resolved /\ call.res.tag \in {"Read", "Write"}) =>
        /\ FirstSegment.tag = "Some"
        /\ FirstSegment.val \in DOMAIN CallUser.access
        /\ call.res.root = CallUser.access[FirstSegment.val].path
        /\ StartsWith(call.res.path, call.res.root)

C3_Witness ==
    /\ Resolved
    /\ call.res.tag = "Write"
    /\ call.path.abs
    /\ Len(call.path.segs) = MaxLen
    /\ Len(call.res.path) > Len(call.res.root)

\* C4: a path inside a read-only mount never resolves to Write.
C4_ReadOnlyNeverWrite ==
    (Resolved /\ FirstSegment.tag = "Some") =>
        \A m \in DOMAIN UserMap[call.user].access :
            (FirstSegment.val = m /\ CallUser.access[m].read_only)
                => call.res.tag # "Write"

C4_Witness ==
    /\ Resolved
    /\ Len(call.path.segs) = MaxLen
    /\ \E m \in DOMAIN UserMap[call.user].access :
          /\ InsideMount(m)
          /\ CallUser.access[m].read_only
    /\ call.res.tag = "Read"
    /\ ~Exists(fs, call.res.path)

\* C5: <mount>/<n> in a writable mount resolves to Write at the mount's real
\* path joined with n, for every file name n.
C5_WritableChild ==
    Resolved =>
        \A m \in DOMAIN UserMap[call.user].access :
            (/\ InsideMount(m)
             /\ Len(call.path.segs) = 2
             /\ ~CallUser.access[m].read_only)
                => call.res = Write(Append(CallUser.access[m].path, call.path.segs[2]),
                                    CallUser.access[m].path)

(***************************************************************************)
(* Normalisation described without the walk: a ".." cancels the nearest    *)
(* ordinary segment before it that is still standing.                      *)
(***************************************************************************)
NormalsIn(s, i, j) == Cardinality({k \in i..j : IsNormal(s[k])})

ParentsIn(s, i, j) == Cardinality({k \in i..j : s[k] = ".."})

\* Some ".." finds the segment stack empty.
Underflow(segs) ==
    \E j \in 1..Len(segs) : ParentsIn(segs, 1, j) > NormalsIn(segs, 1, j)

\* Segment i is ordinary and no later ".." cancels it.
Survives(segs, i) ==
    /\ IsNormal(segs[i])
    /\ \A j \in (i + 1)..Len(segs) :
          ParentsIn(segs, i + 1, j) <= NormalsIn(segs, i + 1, j)

RECURSIVE SurvivorsFrom(_, _)
SurvivorsFrom(segs, i) ==
    IF i > Len(segs) THEN <<>>
    ELSE (IF Survives(segs, i) THEN <<segs[i]>> ELSE <<>>)
         \o SurvivorsFrom(segs, i + 1)

Normalized(raw) ==
    IF Underflow(raw.segs) THEN None
    ELSE LET stack == SurvivorsFrom(raw.segs, 1) IN
         Some(IF raw.abs THEN <<"/">> \o stack
              ELSE IF stack = <<>> THEN <<".">> ELSE stack)

\* C6: a client path whose normalised segment stack is empty ("", ".", "/",
\* <mount>/..) resolves to Root listing exactly the user's mounts with their
\* real paths.
C6_EmptyPathIsRoot ==
    (/\ Resolved
     /\ ~Underflow(call.path.segs)
     /\ SurvivorsFrom(call.path.segs, 1) = <<>>)
        => /\ call.res.tag = "Root"
           /\ call.res.list =
                 {<<m, CallUser.access[m].path>> : m \in DOMAIN CallUser.access}

\* C7: clean returns None exactly when some ".." meets an empty stack, and
\* otherwise the stack left by dropping ".", popping on ".." and pushing the
\* rest; /../../x fails, /a/../b equals /b, and no ".." is left in a result.
C7_CleanNormalizes ==
    Resolved =>
        /\ clean(call.path).tag = "None" <=> Underflow(call.path.segs)
        /\ clean(call.path) = Normalized(call.path)
        /\ clean(call.path).tag = "Some" => ".." \notin Range(clean(call.path).val)
        /\ \A a, b \in {x \in Range(call.path.segs) : IsNormal(x)} :
              /\ clean(RawPath(TRUE, <<"..", "..", a>>)) = None
              /\ clean(RawPath(TRUE, <<a, "..", b>>)) = clean(RawPath(TRUE, <<b>>))

C7_Witness ==
    /\ Resolved
    /\ call.path = RawPath(TRUE, <<"..", "..", "f">>)
    /\ clean(call.path) = None
    /\ call.res.tag = "Error"

(***************************************************************************)
(* Properties of the write-class operations, stated on the step that       *)
(* finishes a call: fs is the file system the call found, fs' the one it   *)
(* left, call' what it did.                                                *)
(***************************************************************************)
WriteOps == {"put", "del", "mkd", "rmd", "rename"}

Mutations == {"open", "remove_file", "create_dir", "remove_dir", "rename"}

Denied(out) == out.tag = "Error" /\ out.kind = "PermissionDenied"

\* The resolutions a finished call depended on, in the order it made them;
\* rename's destination is resolved here from the path the call was given.
Endpoints(c) ==
    IF c.op = "rename"
    THEN <<c.res, full_path(UserMap[c.user], c.to_path)>>
    ELSE <<c.res>>

\* The first endpoint that is not Write, if any.
FirstRefused(c) ==
    LET e == Endpoints(c)
        bad == {i \in DOMAIN e : e[i].tag # "Write"} IN
    IF bad = {} THEN None
    ELSE Some(e[CHOOSE i \in bad : \A k \in bad : i <= k])

\* C8: a write-class operation mutates the file system only when every path
\* it was given resolved to Write; a Read or Root resolution makes it return
\* PermissionDenied and an Error resolution makes it return that error, the
\* file system untouched.
C8_Step ==
    call'.op \in WriteOps =>
        LET e == Endpoints(call')
            refused == FirstRefused(call') IN
        /\ (\E i \in DOMAIN e : e[i].tag \in {"Read", "Root"})
              => Denied(call'.out)
        /\ (refused.tag = "Some" /\ refused.val.tag = "Error")
              => call'.out = refused.val
        /\ refused.tag = "Some"
              => /\ call'.out.tag = "Error"
                 /\ Range(call'.io) \cap Mutations = {}
                 /\ fs' = fs
        /\ (Range(call'.io) \cap Mutations # {} \/ fs' # fs)
              => \A i \in DOMAIN e : e[i].tag = "Write"

\* C8: every step that finishes a write-class operation mutates only on
\* Write, answers Read and Root with PermissionDenied and hands an Error on.
C8_WriteNeedsWritable == [][C8_Step]_vars

C8_Witness ==
    /\ call.op = "del"
    /\ call.res.tag = "Read"
    /\ Denied(call.out)
    /\ call.io = <<>>
    /\ Exists(fs, call.res.path)
    /\ fs[call.res.path].kind = "file"

\* What the source of a rename is in the file system the call found.
SourceKind(fsys, p) ==
    LET loc == Locate(fsys, p) IN
    IF loc.tag = "None" \/ ~Exists(fsys, loc.val) THEN "missing"
    ELSE fsys[loc.val].kind

\* C10: rename calls the file system's rename only after both paths resolved
\* to Write and the source was found to be a plain file or a directory; an
\* endpoint that is Read or Root gives PermissionDenied, and a missing or
\* special source gives PermanentFileNotAvailable, with no rename performed.
C10_Step ==
    call'.op = "rename" =>
        LET e == Endpoints(call')
            renamed == "rename" \in Range(call'.io) IN
        /\ renamed =>
              /\ e[1].tag = "Write" /\ e[2].tag = "Write"
              /\ call'.to = e[2]
              /\ call'.io = <<"symlink_metadata", "rename">>
              /\ SourceKind(fs, e[1].path) \in {"file", "dir"}
        /\ (\E i \in DOMAIN e : e[i].tag \in {"Read", "Root"})
              => Denied(call'.out) /\ ~renamed /\ fs' = fs
        /\ (/\ e[1].tag = "Write" /\ e[2].tag = "Write"
            /\ SourceKind(fs, e[1].path) \notin {"file", "dir"})
              => call'.out = NotAvailable /\ ~renamed /\ fs' = fs

\* C10: every step that finishes a rename called the file system's rename
\* only for two Write endpoints and a plain file or directory as source.
C10_RenameGuarded == [][C10_Step]_vars

C10_Witness ==
    /\ call.op = "rename"
    /\ call.res.tag = "Write"
    /\ call.to.tag = "Write"
    /\ call.io = <<"symlink_metadata", "rename">>
    /\ call.out.tag = "Ok"
    /\ ~Exists(fs, call.res.path)
    /\ Exists(fs, call.to.path)

(***************************************************************************)
(* Properties of authentication, stated on a returned call.                *)
(***************************************************************************)
Returned == auth.pc = "done"

Failed == Returned /\ auth.out.val.tag = "Err"

Elapsed == auth.finished - auth.started

KnownUser == auth.username \in DOMAIN UserMap

Absolute(raw) == RawPath(TRUE, raw.segs)

\* C11: a relative client path p and "/" + p resolve to the same outcome:
\* the same variant, the same real path, the same rejection.
C11_NotationIndependent ==
    (Resolved /\ ~call.path.abs) =>
        call.res = full_path(CallUser, Absolute(call.path))

====
